---- MODULE Spec2Model ----
(***************************************************************************)
(* Model of core/src/types/list.rs: the asynchronous Lister (a Stream     *)
(* that lists raw entries and stats the ones lacking the required          *)
(* metakey in spawned tasks, kept in a FIFO of StatTask) and the           *)
(* BlockingLister (the sequential iterator); and of                        *)
(* AzblobCore::azblob_get_blob_request in core/src/services/azblob/core.rs *)
(* (the request builder of a blob read).                                   *)
(*                                                                         *)
(* A path is the index of the raw entry in the listing (1..Len(raw)).      *)
(* VecDeque::with_capacity(n) is taken to report capacity() = n, which is  *)
(* what the standard library does for a sized element type.                *)
(***************************************************************************)
EXTENDS Integers, Sequences, FiniteSets, TLC

\* ---------------------------------------------------------------- bounds
MaxEntries == 3      \* longest raw listing
MaxConcurrent == 2   \* largest configured OpList::concurrent
MaxEos == 2          \* pulls answered with None before the caller stops
MaxAborts == 1       \* spawned stat tasks that may be aborted
MaxOffset == 2       \* largest offset of a read range
MaxSize == 2         \* largest size of a read range

\* ------------------------------------------------------------ value types
Metakeys == {"ContentLength"}

NoMeta == [keys |-> {}, via |-> "none", of |-> 0]

\* Poll<Option<Result<Entry>>> and Option<Result<Entry>>, one shape for all
Item(t, kind, path, meta) == [t |-> t, kind |-> kind, path |-> path, meta |-> meta]
ReadySomeOk(path, meta) == Item("ok", "none", path, meta)
ReadySomeErr(kind, path) == Item("err", kind, path, NoMeta)
ReadyNone == Item("eos", "none", 0, NoMeta)
PollPending == Item("pending", "none", 0, NoMeta)
Panicked == Item("panic", "none", 0, NoMeta)
Continue == Item("continue", "none", 0, NoMeta)

\* StatTask
Known(path, meta) == [type |-> "Known", path |-> path, meta |-> meta, some |-> TRUE]
Stating(path) == [type |-> "Stating", path |-> path, meta |-> NoMeta, some |-> FALSE]

VARIABLES
    \* inputs of one listing, fixed at creation
    required_metakey,  \* OpList::metakey
    concurrent,        \* OpList::concurrent
    raw,               \* the raw entries the backend lists: raw[i] = metakeys present
    term,              \* how the raw listing ends: "end" or "error"
    acc,               \* acc[path]: outcome of the accessor's stat for path
    \* Lister
    lister,            \* Option<oio::Lister>: "Some" or "None"
    pos,               \* raw entries the oio::Lister has yielded
    srcReady,          \* the oio::Lister has its next answer ready
    srcEnded,          \* the oio::Lister has answered Ok(None)
    srcRepolled,       \* the oio::Lister was polled again after Ok(None)
    tasks,             \* VecDeque<StatTask>
    capacity,          \* tasks.capacity()
    errored,
    task,              \* spawned stat tasks: "idle", "running", "finished", "aborted"
    taken,             \* join handles whose output has been read
    srcWaker,          \* the caller's waker is registered with the oio::Lister
    taskWaker,         \* join handles holding the caller's waker
    parked,            \* the last poll_next returned Poll::Pending
    woken,             \* the caller's waker has fired since
    panicked,          \* a poll_next call panicked
    out,               \* items poll_next delivered, in order
    dropped,           \* the caller has dropped the Lister
    \* BlockingLister
    bpos,              \* raw entries the oio::BlockingLister has yielded
    bEnded,            \* the oio::BlockingLister has answered Ok(None)
    bRepolled,         \* the oio::BlockingLister was pulled again after Ok(None)
    bErrored,
    bStats,            \* paths blocking_stat has been called for
    bOut,              \* items next() returned, in order
    \* AzblobCore::azblob_get_blob_request
    core,              \* the AzblobCore: which encryption headers are configured
    args,              \* the OpRead of the call
    req                \* Result<Request<AsyncBody>> the call returned

inputs == <<required_metakey, concurrent, raw, term, acc>>
asyncVars == <<lister, pos, srcReady, srcEnded, srcRepolled, tasks, capacity, errored,
               task, taken, srcWaker, taskWaker, parked, woken, panicked, out, dropped>>
blockingVars == <<bpos, bEnded, bRepolled, bErrored, bStats, bOut>>
azblobVars == <<core, args, req>>
vars == <<inputs, asyncVars, blockingVars, azblobVars>>

Paths == 1..Len(raw)

Max(a, b) == IF a >= b THEN a ELSE b

\* Metadata::contains_metakey
contains_metakey(metadata, metakey) == metakey \subseteq metadata.keys

\* oio::Entry::into_entry().into_parts() of the path-th raw entry
RawMetadata(path) == [keys |-> raw[path], via |-> "list", of |-> path]

\* RpStat::into_metadata of a successful stat of path
StatMetadata(path) == [keys |-> Metakeys, via |-> "stat", of |-> path]

CountEos(items) == Cardinality({i \in 1..Len(items) : items[i].t = "eos"})

\* ------------------------------------------------------- Lister::create
Capacity_NoClamp(n) == n

Capacity(n) == Max(1, n)

\* ---------------------------------------------------- Lister::poll_next
Self == [lister |-> lister, pos |-> pos, srcReady |-> srcReady,
         srcEnded |-> srcEnded, srcRepolled |-> srcRepolled, tasks |-> tasks,
         errored |-> errored, task |-> task, taken |-> taken,
         srcWaker |-> srcWaker, taskWaker |-> taskWaker, panicked |-> panicked]

HasSpace_OffByOne(q, cap) == Len(q) <= cap

\* never more than one slot, whatever the capacity
HasSpace_Serial(q, cap) == Len(q) < 1

HasSpace(q, cap) == Len(q) < cap

PushBack_Front(q, t) == <<t>> \o q

PushBack(q, t) == Append(q, t)

PopFront(q) == Tail(q)

\* the raw entry becomes a Known slot, or a stat task is spawned for it;
\* st is the state the spawned task has reached when the head is polled
NewTask_AlwaysStat(s, path, st) ==
    [s EXCEPT !.tasks = PushBack(@, Stating(path)), !.task[path] = st]

NewTask(s, path, st) ==
    LET metadata == RawMetadata(path) IN
    IF contains_metakey(metadata, required_metakey)
    THEN [s EXCEPT !.tasks = PushBack(@, Known(path, metadata))]
    ELSE [s EXCEPT !.tasks = PushBack(@, Stating(path)), !.task[path] = st]

SourceErr_NoErrored(s) == [s |-> s, ret |-> ReadySomeErr("source", 0)]

SourceErr(s) == [s |-> [s EXCEPT !.errored = TRUE], ret |-> ReadySomeErr("source", 0)]

\* keeps the lister after its Ok(None)
Refill_KeepsLister(s, rdy, st) ==
    IF ~(HasSpace(s.tasks, capacity) /\ s.lister = "Some")
    THEN [s |-> s, ret |-> Continue]
    ELSE IF ~s.srcReady
    THEN [s |-> [s EXCEPT !.srcWaker = TRUE], ret |-> Continue]
    ELSE IF s.pos < Len(raw)
    THEN [s |-> NewTask([s EXCEPT !.pos = s.pos + 1, !.srcReady = rdy], s.pos + 1, st),
          ret |-> Continue]
    ELSE IF term = "end"
    THEN [s |-> [s EXCEPT !.srcEnded = TRUE, !.srcRepolled = @ \/ s.srcEnded],
          ret |-> Continue]
    ELSE SourceErr(s)

\* pulls a second raw entry in the same call when there is still space
Refill_Twice(s, rdy, st) ==
    LET Once(x) ==
            IF ~(HasSpace(x.tasks, capacity) /\ x.lister = "Some")
            THEN [s |-> x, ret |-> Continue]
            ELSE IF ~x.srcReady
            THEN [s |-> [x EXCEPT !.srcWaker = TRUE], ret |-> Continue]
            ELSE IF x.pos < Len(raw)
            THEN [s |-> NewTask([x EXCEPT !.pos = x.pos + 1, !.srcReady = rdy],
                                x.pos + 1, st),
                  ret |-> Continue]
            ELSE IF term = "end"
            THEN [s |-> [x EXCEPT !.lister = "None", !.srcEnded = TRUE,
                                  !.srcRepolled = @ \/ x.srcEnded],
                  ret |-> Continue]
            ELSE SourceErr(x)
        first == Once(s)
    IN IF first.ret.t = "continue" /\ first.s.pos # s.pos THEN Once(first.s) ELSE first

\* leaves the source error for a later call while the window is not empty
Refill_DeferErr(s, rdy, st) ==
    IF ~(HasSpace(s.tasks, capacity) /\ s.lister = "Some")
    THEN [s |-> s, ret |-> Continue]
    ELSE IF ~s.srcReady
    THEN [s |-> [s EXCEPT !.srcWaker = TRUE], ret |-> Continue]
    ELSE IF s.pos < Len(raw)
    THEN [s |-> NewTask([s EXCEPT !.pos = s.pos + 1, !.srcReady = rdy], s.pos + 1, st),
          ret |-> Continue]
    ELSE IF term = "end"
    THEN [s |-> [s EXCEPT !.lister = "None", !.srcEnded = TRUE,
                          !.srcRepolled = @ \/ s.srcEnded],
          ret |-> Continue]
    ELSE IF s.tasks # <<>>
    THEN [s |-> s, ret |-> Continue]
    ELSE SourceErr(s)

\* waits for the source (ready!) before looking at the window
Refill_BlockOnSource(s, rdy, st) ==
    IF ~(HasSpace(s.tasks, capacity) /\ s.lister = "Some")
    THEN [s |-> s, ret |-> Continue]
    ELSE IF ~s.srcReady
    THEN [s |-> [s EXCEPT !.srcWaker = TRUE], ret |-> PollPending]
    ELSE IF s.pos < Len(raw)
    THEN [s |-> NewTask([s EXCEPT !.pos = s.pos + 1, !.srcReady = rdy], s.pos + 1, st),
          ret |-> Continue]
    ELSE IF term = "end"
    THEN [s |-> [s EXCEPT !.lister = "None", !.srcEnded = TRUE,
                          !.srcRepolled = @ \/ s.srcEnded],
          ret |-> Continue]
    ELSE SourceErr(s)

\* "Trying to pull more tasks if there are more space."
Refill(s, rdy, st) ==
    IF ~(HasSpace(s.tasks, capacity) /\ s.lister = "Some")
    THEN [s |-> s, ret |-> Continue]
    ELSE IF ~s.srcReady
    THEN [s |-> [s EXCEPT !.srcWaker = TRUE], ret |-> Continue]
    ELSE IF s.pos < Len(raw)
    THEN [s |-> NewTask([s EXCEPT !.pos = s.pos + 1, !.srcReady = rdy], s.pos + 1, st),
          ret |-> Continue]
    ELSE IF term = "end"
    THEN [s |-> [s EXCEPT !.lister = "None", !.srcEnded = TRUE,
                          !.srcRepolled = @ \/ s.srcEnded],
          ret |-> Continue]
    ELSE SourceErr(s)

StatErr_NoErrored(s, path) == [s |-> s, ret |-> ReadySomeErr("stat", path)]

StatErr(s, path) == [s |-> [s EXCEPT !.errored = TRUE], ret |-> ReadySomeErr("stat", path)]

\* returns Poll::Pending without handing the waker to the join handle
HeadStating_NoWaker(s, path) ==
    IF path \in s.taken
    THEN [s |-> [s EXCEPT !.panicked = TRUE], ret |-> Panicked]
    ELSE IF s.task[path] = "running"
    THEN [s |-> s, ret |-> PollPending]
    ELSE IF s.task[path] = "aborted"
    THEN [s |-> [s EXCEPT !.taken = @ \cup {path}], ret |-> ReadySomeErr("join", path)]
    ELSE LET popped == [s EXCEPT !.taken = @ \cup {path}, !.tasks = PopFront(@)] IN
         IF acc[path] = "ok"
         THEN [s |-> popped, ret |-> ReadySomeOk(path, StatMetadata(path))]
         ELSE StatErr(popped, path)

\* builds the entry from the stat result of the newest slot
HeadStating_Misattributed(s, path) ==
    IF path \in s.taken
    THEN [s |-> [s EXCEPT !.panicked = TRUE], ret |-> Panicked]
    ELSE IF s.task[path] = "running"
    THEN [s |-> [s EXCEPT !.taskWaker = @ \cup {path}], ret |-> PollPending]
    ELSE IF s.task[path] = "aborted"
    THEN [s |-> [s EXCEPT !.taken = @ \cup {path}], ret |-> ReadySomeErr("join", path)]
    ELSE LET popped == [s EXCEPT !.taken = @ \cup {path}, !.tasks = PopFront(@)] IN
         IF acc[path] = "ok"
         THEN [s |-> popped,
               ret |-> ReadySomeOk(path, StatMetadata(s.tasks[Len(s.tasks)].path))]
         ELSE StatErr(popped, path)

\* StatTask::Stating(handle) at the front
HeadStating(s, path) ==
    IF path \in s.taken
    THEN [s |-> [s EXCEPT !.panicked = TRUE], ret |-> Panicked]
    ELSE IF s.task[path] = "running"
    THEN [s |-> [s EXCEPT !.taskWaker = @ \cup {path}], ret |-> PollPending]
    ELSE IF s.task[path] = "aborted"
    THEN [s |-> [s EXCEPT !.taken = @ \cup {path}], ret |-> ReadySomeErr("join", path)]
    ELSE LET popped == [s EXCEPT !.taken = @ \cup {path}, !.tasks = PopFront(@)] IN
         IF acc[path] = "ok"
         THEN [s |-> popped, ret |-> ReadySomeOk(path, StatMetadata(path))]
         ELSE StatErr(popped, path)

\* takes the entry and leaves the emptied slot at the front
HeadKnown_NoPop(s, h) ==
    IF ~h.some
    THEN [s |-> [s EXCEPT !.panicked = TRUE], ret |-> Panicked]
    ELSE [s |-> [s EXCEPT !.tasks[1].some = FALSE], ret |-> ReadySomeOk(h.path, h.meta)]

\* StatTask::Known(entry) at the front
HeadKnown(s, h) ==
    IF ~h.some
    THEN [s |-> [s EXCEPT !.panicked = TRUE], ret |-> Panicked]
    ELSE [s |-> [s EXCEPT !.tasks = PopFront(@)], ret |-> ReadySomeOk(h.path, h.meta)]

NoTask_AlwaysPending(s) == [s |-> s, ret |-> PollPending]

NoTask_AlwaysNone(s) == [s |-> s, ret |-> ReadyNone]

NoTask(s) ==
    IF s.lister = "None"
    THEN [s |-> s, ret |-> ReadyNone]
    ELSE [s |-> s, ret |-> PollPending]

\* reports a failed stat as soon as it has finished, wherever its slot is
Front_EagerErr(s) ==
    LET failed == {i \in 1..Len(s.tasks) :
                     /\ s.tasks[i].type = "Stating"
                     /\ s.task[s.tasks[i].path] = "finished"
                     /\ acc[s.tasks[i].path] = "fail"} IN
    IF failed # {}
    THEN LET i == CHOOSE i \in failed : TRUE IN
         StatErr([s EXCEPT !.tasks = SubSeq(@, 1, i - 1) \o SubSeq(@, i + 1, Len(@))],
                 s.tasks[i].path)
    ELSE IF s.tasks # <<>>
    THEN IF s.tasks[1].type = "Stating"
         THEN HeadStating(s, s.tasks[1].path)
         ELSE HeadKnown(s, s.tasks[1])
    ELSE NoTask(s)

\* delivers a Known slot from behind a front whose stat is still running
Front_SkipAhead(s) ==
    LET ready == {i \in 2..Len(s.tasks) : s.tasks[i].type = "Known"} IN
    IF /\ s.tasks # <<>>
       /\ s.tasks[1].type = "Stating"
       /\ s.task[s.tasks[1].path] = "running"
       /\ ready # {}
    THEN LET i == CHOOSE i \in ready : TRUE IN
         [s |-> [s EXCEPT !.tasks = SubSeq(@, 1, i - 1) \o SubSeq(@, i + 1, Len(@))],
          ret |-> ReadySomeOk(s.tasks[i].path, s.tasks[i].meta)]
    ELSE IF s.tasks # <<>>
    THEN IF s.tasks[1].type = "Stating"
         THEN HeadStating(s, s.tasks[1].path)
         ELSE HeadKnown(s, s.tasks[1])
    ELSE NoTask(s)

Front(s) ==
    IF s.tasks # <<>>
    THEN IF s.tasks[1].type = "Stating"
         THEN HeadStating(s, s.tasks[1].path)
         ELSE HeadKnown(s, s.tasks[1])
    ELSE NoTask(s)

\* goes on polling after an error
poll_next_NoErroredCheck(s, rdy, st) ==
    LET r == Refill(s, rdy, st) IN
    IF r.ret.t # "continue" THEN r ELSE Front(r.s)

poll_next(s, rdy, st) ==
    IF s.errored
    THEN [s |-> s, ret |-> ReadyNone]
    ELSE LET r == Refill(s, rdy, st) IN
         IF r.ret.t # "continue" THEN r ELSE Front(r.s)

Delivered(items, ret) ==
    IF ret.t \in {"ok", "err", "eos"} THEN Append(items, ret) ELSE items

\* one call of poll_next by the task that consumes the stream
DoPoll ==
    /\ ~dropped
    /\ ~panicked
    /\ CountEos(out) < MaxEos
    /\ \E rdy \in BOOLEAN, st \in {"running", "finished"} :
         LET r == poll_next(Self, rdy, st) IN
         /\ lister' = r.s.lister
         /\ pos' = r.s.pos
         /\ srcReady' = r.s.srcReady
         /\ srcEnded' = r.s.srcEnded
         /\ srcRepolled' = r.s.srcRepolled
         /\ tasks' = r.s.tasks
         /\ errored' = r.s.errored
         /\ task' = r.s.task
         /\ taken' = r.s.taken
         /\ srcWaker' = r.s.srcWaker
         /\ taskWaker' = r.s.taskWaker
         /\ panicked' = r.s.panicked
         /\ out' = Delivered(out, r.ret)
         /\ parked' = (r.ret.t = "pending")
         /\ woken' = FALSE
    /\ UNCHANGED <<inputs, capacity, dropped, blockingVars, azblobVars>>

\* the consumer polls when it is not suspended, or after its waker fired
Poll ==
    /\ ~parked \/ woken
    /\ DoPoll

\* a poll nobody asked for (the Stream contract allows it)
SpuriousPoll ==
    /\ parked /\ ~woken
    /\ DoPoll

\* the oio::Lister gets its next answer (entry, end or error) ready
SourceReady ==
    /\ ~dropped
    /\ lister = "Some"
    /\ ~errored
    /\ ~srcReady
    /\ srcReady' = TRUE
    /\ srcWaker' = FALSE
    /\ woken' = (woken \/ srcWaker)
    /\ UNCHANGED <<inputs, lister, pos, srcEnded, srcRepolled, tasks, capacity, errored,
                   task, taken, taskWaker, parked, panicked, out, dropped, blockingVars, azblobVars>>

\* the spawned task `acc.stat(&path).await` runs to completion
StatComplete(path) ==
    /\ path \in Paths
    /\ task[path] = "running"
    /\ task' = [task EXCEPT ![path] = "finished"]
    /\ taskWaker' = taskWaker \ {path}
    /\ woken' = (woken \/ path \in taskWaker)
    /\ UNCHANGED <<inputs, lister, pos, srcReady, srcEnded, srcRepolled, tasks, capacity,
                   errored, taken, srcWaker, parked, panicked, out, dropped, blockingVars, azblobVars>>

\* the spawned task is aborted or panics: its JoinHandle resolves to a JoinError
StatAbort(path) ==
    /\ path \in Paths
    /\ task[path] = "running"
    /\ Cardinality({p \in Paths : task[p] = "aborted"}) < MaxAborts
    /\ task' = [task EXCEPT ![path] = "aborted"]
    /\ taskWaker' = taskWaker \ {path}
    /\ woken' = (woken \/ path \in taskWaker)
    /\ UNCHANGED <<inputs, lister, pos, srcReady, srcEnded, srcRepolled, tasks, capacity,
                   errored, taken, srcWaker, parked, panicked, out, dropped, blockingVars, azblobVars>>

\* the caller drops the Lister: the spawned tasks are detached with their
\* JoinHandles and keep running; the fields of the Lister are not read again
Drop ==
    /\ ~dropped
    /\ dropped' = TRUE
    /\ UNCHANGED <<inputs, lister, pos, srcReady, srcEnded, srcRepolled, tasks, capacity,
                   errored, task, taken, srcWaker, taskWaker, parked, woken, panicked,
                   out, blockingVars, azblobVars>>

\* ------------------------------------------------- BlockingLister::next
BSelf == [pos |-> bpos, ended |-> bEnded, repolled |-> bRepolled,
          errored |-> bErrored, stats |-> bStats]

BStatErr_NoErrored(b, path) == [b |-> b, ret |-> ReadySomeErr("stat", path)]

BStatErr(b, path) == [b |-> [b EXCEPT !.errored = TRUE], ret |-> ReadySomeErr("stat", path)]

\* again: what the raw source answers when it is pulled after its Ok(None)
blocking_next(b, again) ==
    IF b.errored
    THEN [b |-> b, ret |-> ReadyNone]
    ELSE IF b.pos >= Len(raw)
    THEN LET answer == IF b.ended THEN again ELSE term
             pulled == [b EXCEPT !.repolled = @ \/ b.ended]
         IN IF answer = "end"
            THEN [b |-> [pulled EXCEPT !.ended = TRUE], ret |-> ReadyNone]
            ELSE [b |-> [pulled EXCEPT !.errored = TRUE], ret |-> ReadySomeErr("source", 0)]
    ELSE LET path == b.pos + 1
             metadata == RawMetadata(path)
             pulled == [b EXCEPT !.pos = path]
         IN IF contains_metakey(metadata, required_metakey)
            THEN [b |-> pulled, ret |-> ReadySomeOk(path, metadata)]
            ELSE LET stated == [pulled EXCEPT !.stats = @ \cup {path}] IN
                 IF acc[path] = "ok"
                 THEN [b |-> stated, ret |-> ReadySomeOk(path, StatMetadata(path))]
                 ELSE BStatErr(stated, path)

BlockingNext ==
    /\ CountEos(bOut) < MaxEos
    /\ \E again \in {"end", "error"} :
       LET r == blocking_next(BSelf, again) IN
         /\ bpos' = r.b.pos
         /\ bEnded' = r.b.ended
         /\ bRepolled' = r.b.repolled
         /\ bErrored' = r.b.errored
         /\ bStats' = r.b.stats
         /\ bOut' = Append(bOut, r.ret)
    /\ UNCHANGED <<inputs, asyncVars, azblobVars>>

\* --------------------------- AzblobCore::azblob_get_blob_request
\* Option<u64>
None == [some |-> FALSE, v |-> 0]
Some(v) == [some |-> TRUE, v |-> v]

\* BytesRange(offset, size)
BytesRanges == [offset : {None} \cup {Some(n) : n \in 0..MaxOffset},
                size : {None} \cup {Some(n) : n \in 0..MaxSize}]

\* BytesRange::is_full: the range is the whole blob
is_full(range) == (~range.offset.some \/ range.offset.v = 0) /\ ~range.size.some

SseHeaders == {"x-ms-encryption-key", "x-ms-encryption-key-sha256",
               "x-ms-encryption-algorithm"}

OpReads == [range : BytesRanges,
            override_content_disposition : BOOLEAN,
            if_none_match : BOOLEAN,
            if_match : BOOLEAN]

NoRequest == [ok |-> FALSE, kind |-> "none", query |-> {}, headers |-> {}, range |-> [offset |-> None, size |-> None]]
ErrUnsupported == [ok |-> FALSE, kind |-> "Unsupported", query |-> {}, headers |-> {},
                   range |-> [offset |-> None, size |-> None]]
OkRequest(query, headers, range) ==
    [ok |-> TRUE, kind |-> "none", query |-> query, headers |-> headers, range |-> range]

\* sends the suffix range to the service instead of refusing it
azblob_get_blob_request_NoSuffixCheck(c, a) ==
    LET query == IF a.override_content_disposition THEN {"rscd"} ELSE {}
        sse == c
        cond == (IF a.if_none_match THEN {"if-none-match"} ELSE {})
                \cup (IF a.if_match THEN {"if-match"} ELSE {})
    IN IF ~is_full(a.range)
       THEN OkRequest(query, sse \cup {"range"} \cup cond, a.range)
       ELSE OkRequest(query, sse \cup cond, [offset |-> None, size |-> None])

azblob_get_blob_request(c, a) ==
    LET query == IF a.override_content_disposition THEN {"rscd"} ELSE {}
        sse == c
        cond == (IF a.if_none_match THEN {"if-none-match"} ELSE {})
                \cup (IF a.if_match THEN {"if-match"} ELSE {})
    IN IF ~is_full(a.range)
       THEN IF ~a.range.offset.some /\ a.range.size.some
            THEN ErrUnsupported
            ELSE OkRequest(query, sse \cup {"range"} \cup cond, a.range)
       ELSE OkRequest(query, sse \cup cond, [offset |-> None, size |-> None])

\* one call of azblob_get_blob_request
GetBlobRequest ==
    /\ req = NoRequest
    /\ req' = azblob_get_blob_request(core, args)
    /\ UNCHANGED <<inputs, asyncVars, blockingVars, core, args>>

\* ------------------------------------------------------------- the system
RawListings == UNION {[1..n -> SUBSET Metakeys] : n \in 0..MaxEntries}

Init ==
    /\ required_metakey \in SUBSET Metakeys
    /\ concurrent \in 0..MaxConcurrent
    /\ raw \in RawListings
    /\ term \in {"end", "error"}
    /\ acc \in [1..Len(raw) -> {"ok", "fail"}]
    \* the stat outcome of a path that is never stat'ed is immaterial
    /\ \A p \in 1..Len(raw) : required_metakey \subseteq raw[p] => acc[p] = "ok"
    /\ lister = "Some"
    /\ pos = 0
    /\ srcReady \in BOOLEAN
    /\ srcEnded = FALSE
    /\ srcRepolled = FALSE
    /\ dropped = FALSE
    /\ bEnded = FALSE
    /\ bRepolled = FALSE
    /\ tasks = <<>>
    /\ capacity = Capacity(concurrent)
    /\ errored = FALSE
    /\ task = [p \in 1..Len(raw) |-> "idle"]
    /\ taken = {}
    /\ srcWaker = FALSE
    /\ taskWaker = {}
    /\ parked = FALSE
    /\ woken = FALSE
    /\ panicked = FALSE
    /\ out = <<>>
    /\ bpos = 0
    /\ bErrored = FALSE
    /\ bStats = {}
    /\ bOut = <<>>
    \* no blob read is under way
    /\ core = {}
    /\ args = [range |-> [offset |-> None, size |-> None],
               override_content_disposition |-> FALSE,
               if_none_match |-> FALSE, if_match |-> FALSE]
    /\ req = OkRequest({}, {}, [offset |-> None, size |-> None])

Next ==
    \/ Poll
    \/ SpuriousPoll
    \/ SourceReady
    \/ \E path \in Paths : StatComplete(path)
    \/ \E path \in Paths : StatAbort(path)
    \/ Drop
    \/ BlockingNext

Spec == Init /\ [][Next]_vars

\* a blob read, for every OpRead and AzblobCore within the bounds; no listing
ReadInit ==
    /\ required_metakey = {}
    /\ concurrent = 1
    /\ raw = <<>>
    /\ term = "end"
    /\ acc = <<>>
    /\ lister = "Some"
    /\ pos = 0
    /\ srcReady = TRUE
    /\ srcEnded = FALSE
    /\ srcRepolled = FALSE
    /\ dropped = FALSE
    /\ bEnded = FALSE
    /\ bRepolled = FALSE
    /\ tasks = <<>>
    /\ capacity = Capacity(concurrent)
    /\ errored = FALSE
    /\ task = <<>>
    /\ taken = {}
    /\ srcWaker = FALSE
    /\ taskWaker = {}
    /\ parked = FALSE
    /\ woken = FALSE
    /\ panicked = FALSE
    /\ out = <<>>
    /\ bpos = 0
    /\ bErrored = FALSE
    /\ bStats = {}
    /\ bOut = <<>>
    /\ core \in {{}, SseHeaders}
    /\ args \in OpReads
    /\ req = NoRequest

ReadNext == GetBlobRequest

ReadSpec == ReadInit /\ [][ReadNext]_vars

\* a consumer that keeps the Lister and drains it: it is scheduled when
\* runnable, the backend answers the listing, and a spawned stat task that is
\* not aborted runs to completion
LiveNext ==
    \/ Poll
    \/ SpuriousPoll
    \/ SourceReady
    \/ \E path \in Paths : StatComplete(path)
    \/ \E path \in Paths : StatAbort(path)

LiveSpec ==
    /\ Init /\ [][LiveNext]_vars
    /\ WF_vars(Poll)
    /\ WF_vars(SourceReady)
    /\ WF_vars(\E path \in Paths : StatComplete(path))

\* ------------------------------------------------------------ properties
NeedsStat(p) == ~(required_metakey \subseteq raw[p])
NoAbort == \A p \in Paths : task[p] # "aborted"
StatFails == {p \in Paths : acc[p] = "fail"}
Faults == Cardinality(StatFails) + (IF term = "error" THEN 1 ELSE 0)
Running == {p \in Paths : task[p] = "running"}
\* what a listing without any fault delivers for path p
FaultFree(p) == ReadySomeOk(p, IF NeedsStat(p) THEN StatMetadata(p) ELSE RawMetadata(p))
OkCount(items) == Cardinality({i \in 1..Len(items) : items[i].t = "ok"})
ErrCount(items) == Cardinality({i \in 1..Len(items) : items[i].t = "err"})
\* items = FaultFree(1..k), then (if any) one item e, then only end-of-sequence
PrefixThen(items, k, e) ==
    /\ \A i \in 1..Len(items) :
         \/ i <= k /\ items[i] = FaultFree(i)
         \/ i = k + 1 /\ items[i] = e
         \/ i > k + 1 /\ items[i] = ReadyNone
\* the items up to and including the first end-of-sequence
Finished(items) == \E i \in 1..Len(items) : items[i].t = "eos"
FirstEos(items) == CHOOSE i \in 1..Len(items) :
                     items[i].t = "eos" /\ \A j \in 1..(i - 1) : items[j].t # "eos"
UptoEos(items) == SubSeq(items, 1, FirstEos(items))

\* C1: the paths of the entries the Lister delivers successfully are in the
\* order the raw source produced them: a later delivery never carries an
\* earlier raw entry, whatever the capacity and the order stats complete in.
C1_OrderPreserved ==
    \A i, j \in 1..Len(out) :
        (i < j /\ out[i].t = "ok" /\ out[j].t = "ok") => out[i].path < out[j].path

\* entry 1 was delivered while the stat of entry 3 had completed before the
\* stat of entry 2 that sits in front of it
C1_Witness ==
    /\ Len(out) >= 1 /\ out[1].t = "ok"
    /\ Len(tasks) >= 2
    /\ tasks[1].type = "Stating" /\ task[tasks[1].path] = "running"
    /\ tasks[2].type = "Stating" /\ task[tasks[2].path] = "finished"

\* C2: the window never holds more than max(1, concurrent) slots, so at most
\* that many stats of one Lister are running, and a raw entry is pulled only
\* in a step that found len(window) < capacity.
C2_ConcurrencyBound ==
    /\ [](/\ capacity = Max(1, concurrent)
          /\ Len(tasks) <= Max(1, concurrent)
          /\ Cardinality(Running) <= Max(1, concurrent)
          /\ Running \subseteq {tasks[i].path : i \in 1..Len(tasks)})
    /\ [][pos' # pos => Len(tasks) < Max(1, concurrent)]_vars

C2_Witness ==
    /\ capacity = 2
    /\ Len(tasks) = 2
    /\ Cardinality(Running) = 2

\* C3: with a single fault (the raw source errors, or exactly one stat call
\* fails) the Lister delivers a prefix of the fault-free output, then one
\* error item, then only end-of-sequence; never two error items.
C3_AtMostOneError ==
    (Faults = 1 /\ NoAbort) =>
        /\ ErrCount(out) <= 1
        /\ \E k \in 0..Len(raw) : \E e \in {ReadySomeErr("source", 0)} \cup
                                          {ReadySomeErr("stat", p) : p \in StatFails} :
             PrefixThen(out, k, e)

C3_Witness ==
    /\ Faults = 1 /\ NoAbort
    /\ OkCount(out) >= 1
    /\ ErrCount(out) = 1
    /\ CountEos(out) = 2

\* C4: a join error of the head task is delivered once, sets errored, and
\* every later pull yields end-of-sequence: no second error, no panic.
C4_JoinErrorFatal ==
    \A i \in 1..Len(out) :
        (out[i].t = "err" /\ out[i].kind = "join") =>
            /\ errored
            /\ ~panicked
            /\ \A j \in (i + 1)..Len(out) : out[j] = ReadyNone

\* C5 as stated: once the source error is delivered, every raw entry the
\* source yielded before it has been delivered, in order.
C5_AllBeforeSourceError ==
    (StatFails = {} /\ NoAbort) =>
        \A i \in 1..Len(out) :
            (out[i].t = "err" /\ out[i].kind = "source") =>
                PrefixThen(out, Len(raw), ReadySomeErr("source", 0))

\* C5 amended: the source error is preceded by a prefix e1..ej (j <= k) of the
\* raw entries, in order, and followed only by end-of-sequence; the prefix is
\* all of e1..ek when the capacity is 1 or no entry needs a stat.
C5_PrefixBeforeSourceError ==
    (StatFails = {} /\ NoAbort) =>
        \A i \in 1..Len(out) :
            (out[i].t = "err" /\ out[i].kind = "source") =>
                /\ PrefixThen(out, i - 1, ReadySomeErr("source", 0))
                /\ (capacity = 1 \/ \A p \in Paths : ~NeedsStat(p)) => i - 1 = Len(raw)

\* two entries that need a stat, capacity 1: both delivered, then the error
C5_Witness ==
    /\ StatFails = {} /\ NoAbort
    /\ Len(raw) = 2 /\ \A p \in Paths : NeedsStat(p)
    /\ capacity = 1
    /\ Len(out) = 4 /\ out[3] = ReadySomeErr("source", 0) /\ out[4] = ReadyNone

\* C6: when the stat of the i-th raw entry is the only fault, the Lister
\* delivers entries 1..i-1, then the stat error of entry i, then only
\* end-of-sequence; no entry after i is delivered.
C6_StatFailureTerminates ==
    (term = "end" /\ NoAbort /\ Cardinality(StatFails) = 1) =>
        \A p \in StatFails : PrefixThen(out, p - 1, ReadySomeErr("stat", p))

\* the 2nd stat failed; the 3rd succeeded and is never delivered
C6_Witness ==
    /\ Len(raw) = 3
    /\ term = "end" /\ NoAbort /\ StatFails = {2}
    /\ capacity = 2
    /\ task[3] = "finished"
    /\ out = <<FaultFree(1), ReadySomeErr("stat", 2), ReadyNone>>

\* C7: in both pipelines a stat is issued exactly for the pulled raw entries
\* whose metadata lacks the required metakey, and an entry that has it is
\* delivered with its raw metadata.
C7_MetakeyShortCircuit ==
    /\ {p \in Paths : task[p] # "idle"} = {p \in 1..pos : NeedsStat(p)}
    /\ bStats = {p \in 1..bpos : NeedsStat(p)}
    /\ \A i \in 1..Len(out) : (out[i].t = "ok" /\ ~NeedsStat(out[i].path)) =>
                                 out[i].meta = RawMetadata(out[i].path)
    /\ \A i \in 1..Len(bOut) : (bOut[i].t = "ok" /\ ~NeedsStat(bOut[i].path)) =>
                                  bOut[i].meta = RawMetadata(bOut[i].path)

\* a (known), b (needs stat), c (known), capacity 2: a, b, c with one stat
C7_Witness ==
    /\ Len(raw) = 3 /\ ~NeedsStat(1) /\ NeedsStat(2) /\ ~NeedsStat(3)
    /\ capacity = 2
    /\ OkCount(out) = 3 /\ OkCount(bOut) = 3
    /\ {p \in Paths : task[p] # "idle"} = {2}
    /\ bStats = {2}

\* C8 as stated: on the same input the two pipelines deliver the same items.
C8_BlockingAsyncEqual ==
    (NoAbort /\ Finished(out) /\ Finished(bOut)) => UptoEos(out) = UptoEos(bOut)

\* C8 amended: on the same input the two pipelines deliver the same items
\* when the raw source ends without an error or the capacity is 1.
C8_BlockingAsyncEqualCleanEnd ==
    (NoAbort /\ Finished(out) /\ Finished(bOut) /\ (term = "end" \/ capacity = 1)) =>
        UptoEos(out) = UptoEos(bOut)

C8_Witness ==
    /\ NoAbort /\ Finished(out) /\ Finished(bOut)
    /\ term = "end" /\ capacity = 2
    /\ Len(raw) = 3 /\ StatFails = {3}
    /\ OkCount(out) = 2 /\ ErrCount(out) = 1

\* C9: a consumer that keeps pulling and discards error items gets
\* end-of-sequence eventually, and no pull panics, provided the spawned
\* stats run to completion.
C9_DrainTerminates ==
    /\ [](NoAbort => ~panicked)
    /\ <>(Finished(out) \/ ~NoAbort)

\* the listing fails at once (invalid backend): the error, then the end
C9_Witness ==
    /\ Len(raw) = 0 /\ term = "error"
    /\ ~panicked
    /\ out = <<ReadySomeErr("source", 0), ReadyNone>>

\* C10: a configured concurrency of 0 gives a window of capacity 1: at most
\* one stat runs, and a fault-free listing is still delivered completely.
C10_ConcurrencyClamp ==
    /\ [](concurrent = 0 => /\ capacity = 1
                            /\ Len(tasks) <= 1
                            /\ Cardinality(Running) <= 1)
    /\ (concurrent = 0 /\ Faults = 0) ~>
           (~NoAbort \/ (Finished(out) /\ OkCount(out) = Len(raw)))

C10_Witness ==
    /\ concurrent = 0 /\ Faults = 0 /\ NoAbort
    /\ Len(raw) = 3 /\ \A p \in Paths : NeedsStat(p)
    /\ Finished(out) /\ OkCount(out) = 3

\* C11: errored is never cleared in either pipeline, and a pull made after it
\* is set only returns end-of-sequence: the source is not polled, no join
\* handle is polled, no stat is started, the window and the source stay as
\* they are, and the error is not delivered again.
C11_ErroredSticky ==
    [][/\ errored =>
            /\ errored'
            /\ UNCHANGED <<lister, pos, srcReady, srcEnded, srcRepolled, tasks, taken,
                           srcWaker, panicked>>
            /\ taskWaker' \subseteq taskWaker
            /\ \A p \in Paths : task[p] = "idle" => task'[p] = "idle"
            /\ out' = out \/ out' = Append(out, ReadyNone)
       /\ bErrored =>
            /\ bErrored'
            /\ UNCHANGED <<bpos, bEnded, bRepolled, bStats>>
            /\ bOut' = bOut \/ bOut' = Append(bOut, ReadyNone)]_vars

\* both pipelines answered None after their error; the window of the Lister
\* still holds a slot
C11_Witness ==
    /\ errored /\ tasks # <<>> /\ out[Len(out)] = ReadyNone
    /\ bErrored /\ bOut[Len(bOut)] = ReadyNone

\* the source has ended, the window is empty and None was the last answer
Exhausted ==
    /\ lister = "None"
    /\ tasks = <<>>
    /\ Len(out) > 0 /\ out[Len(out)] = ReadyNone

\* C12: when the raw source signals its end the Lister sets lister to None
\* and never polls it again; once None was delivered with an empty window,
\* every later pull delivers None: no item, no error, no suspension.
C12_ExhaustedAbsorbing ==
    /\ [](srcEnded => (lister = "None" /\ ~srcRepolled))
    /\ [][lister = "None" => (lister' = "None" /\ UNCHANGED <<pos, srcReady, srcWaker>>)]_vars
    /\ [][Exhausted => /\ Exhausted'
                       /\ ~parked' /\ ~panicked'
                       /\ out' = out \/ out' = Append(out, ReadyNone)]_vars

C12_Witness ==
    /\ Exhausted /\ ~errored
    /\ Len(raw) >= 1
    /\ CountEos(out) = 2

\* C13: once next() returned None because the raw source ended, a later
\* next() does not pull the raw source again and returns None.
C13_BlockingExhaustedAbsorbing ==
    /\ ~bRepolled
    /\ \A i, j \in 1..Len(bOut) : (i < j /\ bOut[i] = ReadyNone) => bOut[j] = ReadyNone

\* C14: after the Lister is dropped no stat task it spawned is running.
C14_NoWorkAfterDrop ==
    dropped => Running = {}

\* a step in which poll_next ran (it is the only action that changes these)
PollVars == <<out, tasks, errored, parked, pos, lister, taken, panicked>>
PollStep == PollVars' # PollVars \/ (woken /\ ~woken') \/ (~srcWaker /\ srcWaker')
SourceErrItem == ReadySomeErr("source", 0)
HeadRunning ==
    /\ tasks # <<>>
    /\ tasks[1].type = "Stating"
    /\ task[tasks[1].path] = "running"
HeadResolved ==
    /\ tasks # <<>>
    /\ \/ tasks[1].type = "Known"
       \/ /\ tasks[1].type = "Stating"
          /\ task[tasks[1].path] = "finished"
          /\ acc[tasks[1].path] = "ok"
          /\ tasks[1].path \notin taken
Pollable == ~errored /\ ~dropped /\ ~panicked /\ CountEos(out) < MaxEos

\* C15 as stated: a pull step keeps pulling raw entries until the window is
\* full, the source is not ready, the source ends or the source errors; so
\* after a step that pulled an entry and left the source ready with more
\* entries, the window was full before the front was resolved.
C15_RefillLoops ==
    [][(pos' # pos /\ srcReady' /\ pos' < Len(raw)) => Len(tasks') >= capacity - 1]_vars

\* C15 amended: a pull step polls the raw source at most once, and only when
\* len(window) < capacity and the source is present: it obtains at most one
\* raw entry and appends at most one slot, so the window fills over
\* successive pull steps.
C15_RefillOnce ==
    [][/\ pos' = pos \/ (/\ pos' = pos + 1
                         /\ Len(tasks) < capacity
                         /\ lister = "Some"
                         /\ srcReady)
       /\ Len(tasks') <= Len(tasks) + 1]_vars

\* capacity 2, the source has more entries ready, and the first pull took one
\* entry only and delivered it
C15_Witness ==
    /\ capacity = 2
    /\ Len(raw) >= 2 /\ pos = 1 /\ srcReady
    /\ tasks = <<>>
    /\ Len(out) = 1 /\ out[1].t = "ok"

\* C16: slots enter the window at the back (one per pulled raw entry) and
\* leave it at the front; while the stat of the front slot is running no
\* entry is delivered and the front stays, whatever the later slots hold.
C16_HeadOfLine ==
    [][/\ pos' = pos => (tasks' = tasks \/ (tasks # <<>> /\ tasks' = Tail(tasks)))
       /\ pos' # pos =>
            \E slot \in {Known(pos', RawMetadata(pos')), Stating(pos')} :
                \/ tasks' = Append(tasks, slot)
                \/ tasks' = Tail(Append(tasks, slot))
       /\ HeadRunning => /\ OkCount(out') = OkCount(out)
                         /\ tasks' # <<>>
                         /\ tasks'[1] = tasks[1]]_vars

\* the pull is suspended on the running front while a Known slot waits behind
C16_Witness ==
    /\ HeadRunning
    /\ Len(tasks) >= 2 /\ tasks[2].type = "Known"
    /\ parked

\* C17: a pull that finds the raw source in error sets errored and delivers
\* the source error at once, whatever the window holds; the window is left
\* as it is and (errored being set) none of its slots is delivered.
C17_SourceErrorPreempts ==
    [][/\ (out' # out /\ out'[Len(out')] = SourceErrItem) =>
            (errored' /\ tasks' = tasks)
       /\ (/\ Pollable
           /\ lister = "Some" /\ Len(tasks) < capacity
           /\ srcReady /\ pos = Len(raw) /\ term = "error"
           /\ PollStep) =>
            (out' = Append(out, SourceErrItem) /\ errored' /\ tasks' = tasks)]_vars

\* the source error was delivered over a window whose front was resolved
C17_Witness ==
    /\ errored
    /\ out[Len(out)] = SourceErrItem
    /\ HeadResolved

\* C18: None is delivered without an earlier error only when the source has
\* ended and the window is empty, and then every raw entry has been delivered
\* exactly once, in order; a listing without a fault delivers no error.
C18_FaultFreeComplete ==
    /\ (term = "end" /\ StatFails = {} /\ NoAbort) => ErrCount(out) = 0
    /\ (Finished(out) /\ ErrCount(UptoEos(out)) = 0) =>
         /\ srcEnded /\ lister = "None" /\ tasks = <<>> /\ pos = Len(raw)
         /\ UptoEos(out) = [i \in 1..(Len(raw) + 1) |->
                              IF i <= Len(raw) THEN FaultFree(i) ELSE ReadyNone]

C18_Witness ==
    /\ Finished(out) /\ ErrCount(out) = 0
    /\ Len(raw) = 3 /\ capacity = 2
    /\ \A p \in Paths : NeedsStat(p)
    /\ OkCount(out) = 3

\* C19: a pull that finds room in the window but the raw source not ready
\* still resolves the front: a resolved front entry is delivered in that
\* same step, with no new raw entry.
C19_RefillDoesNotBlock ==
    [][(/\ Pollable
        /\ lister = "Some" /\ Len(tasks) < capacity /\ ~srcReady
        /\ HeadResolved
        /\ PollStep) =>
         /\ out' = Append(out, FaultFree(tasks[1].path))
         /\ tasks' = Tail(tasks)
         /\ pos' = pos]_vars

\* the last pull registered with the idle source and yet delivered an entry
C19_Witness ==
    /\ lister = "Some" /\ Len(tasks) < capacity
    /\ ~srcReady /\ srcWaker
    /\ ~parked
    /\ Len(out) >= 1 /\ out[Len(out)].t = "ok"

\* C20: a suspended pull holds a wake-up registration with an operation that
\* is still outstanding (the raw source, or the stat at the front), and it
\* is eventually resumed.
C20_NoLostWakeup ==
    /\ []((parked /\ ~woken) =>
            \/ (srcWaker /\ lister = "Some" /\ ~srcReady)
            \/ (HeadRunning /\ tasks[1].path \in taskWaker))
    /\ (parked ~> ~parked)

\* the waker of a suspended pull has fired: the stat at the front is done
C20_Witness ==
    /\ parked /\ woken
    /\ tasks # <<>> /\ tasks[1].type = "Stating"
    /\ task[tasks[1].path] = "finished"

\* C21: the window is used: a pull that finds room and a ready raw entry
\* takes it and starts its stat at once, also while earlier stats are still
\* running, and neither that nor the delivery of an earlier entry stops a
\* running stat; so capacity-many stats run at the same time.
C21_StatsOverlap ==
    [][/\ (/\ Pollable
           /\ lister = "Some" /\ Len(tasks) < capacity
           /\ srcReady /\ pos < Len(raw)
           /\ PollStep) =>
            /\ pos' = pos + 1
            /\ NeedsStat(pos') => task'[pos'] \in {"running", "finished"}
            /\ \A p \in Running : task'[p] = "running"
       /\ OkCount(out') > OkCount(out) => \A p \in Running : task'[p] = "running"]_vars

\* entry 1 is delivered and the stats of entries 2 and 3 run together
C21_Witness ==
    /\ capacity = 2
    /\ OkCount(out) >= 1
    /\ Cardinality(Running) = 2

\* C22: an entry delivered for a raw entry that needed a stat carries the
\* path of that raw entry and the metadata the stat of that path returned
\* (not the raw metadata); no metadata is attached to another path, in
\* either pipeline.
C22_StatAttribution ==
    \A items \in {out, bOut} : \A i \in 1..Len(items) :
        items[i].t = "ok" =>
            /\ items[i].meta.of = items[i].path
            /\ NeedsStat(items[i].path) => items[i].meta = StatMetadata(items[i].path)

C22_Witness ==
    /\ capacity = 2
    /\ Len(raw) >= 2 /\ \A p \in Paths : NeedsStat(p)
    /\ OkCount(out) >= 2 /\ OkCount(bOut) >= 2

\* C23: a call of BlockingLister::next pulls at most one raw entry and makes
\* at most one stat, whose outcome that same call returns; a source error or
\* a stat error sets errored in the call that returns it.
C23_BlockingSequential ==
    [][/\ bpos' \in {bpos, bpos + 1}
       /\ Len(bOut') <= Len(bOut) + 1
       /\ \/ bStats' = bStats
          \/ /\ bpos' = bpos + 1
             /\ bStats' = bStats \cup {bpos'}
             /\ \E item \in {ReadySomeOk(bpos', StatMetadata(bpos')),
                             ReadySomeErr("stat", bpos')} : bOut' = Append(bOut, item)
       /\ (bOut' # bOut /\ bOut'[Len(bOut')].t = "err") => bErrored'
       /\ (bErrored' /\ ~bErrored) => (bOut' # bOut /\ bOut'[Len(bOut')].t = "err")]_vars

\* the first call stat'ed entry 1, the second returned the stat error of 2
C23_Witness ==
    /\ bErrored
    /\ bStats = {1, 2}
    /\ bOut = <<ReadySomeOk(1, StatMetadata(1)), ReadySomeErr("stat", 2)>>

\* C24: a Known slot in the window always holds its entry (the expect cannot
\* fail), a delivered entry is not delivered again and its slot is gone, and
\* a stat that has completed or been spawned does not go back.
C24_SlotResolvesOnce ==
    /\ [](\A i \in 1..Len(tasks) : tasks[i].type = "Known" => tasks[i].some)
    /\ [](\A i \in 1..Len(out) : out[i].t = "ok" =>
            /\ \A j \in 1..Len(out) : (out[j].t = "ok" /\ out[j].path = out[i].path) => j = i
            /\ \A k \in 1..Len(tasks) : tasks[k].path # out[i].path)
    /\ [][\A p \in Paths :
            /\ task[p] \in {"finished", "aborted"} => task'[p] = task[p]
            /\ task[p] # "idle" => task'[p] # "idle"]_vars

\* a Known entry and a stat'ed entry have both been delivered
C24_Witness ==
    /\ ~panicked
    /\ \E i \in 1..Len(out) : out[i].t = "ok" /\ out[i].meta.via = "list"
    /\ \E i \in 1..Len(out) : out[i].t = "ok" /\ out[i].meta.via = "stat"

====
